---- MODULE Spec2Model ----
(***************************************************************************)
(* Model of translator_backend/app.py: a Flask application that relays a   *)
(* voice clip through normalisation (pydub), speech recognition, text      *)
(* translation and speech synthesis, and serves the synthesised files.     *)
(*                                                                         *)
(* Each request is handled by a server thread; the handler                 *)
(* process_voice_translation is split into one action per blocking step    *)
(* (file write, decode, export, remote call), so that two handlers can     *)
(* interleave on the shared directory temp_audio.  The results of the      *)
(* remote services and of the file system are inputs of the steps.         *)
(***************************************************************************)
EXTENDS Integers, Sequences, FiniteSets, TLC

\* ------------------------------------------------------------------ bounds

\* Number of POST /translate_voice requests the clients send in one
\* behaviour of Spec.
MaxRequests == 2

\* Number of requests sent in one behaviour of SpecLang.
MaxLangRequests == 1

\* ------------------------------------------------- Python values and dicts

\* Optional values: None is the empty tuple, a present value x is <<x>>.
None == <<>>
Some(x) == <<x>>

\* Python truthiness of an Optional[str]: None and "" are both falsy.
Truthy(o) == o # None /\ o[1] # ""

\* The empty dict {}.
EmptyDict == [k \in {} |-> k]

\* dict.get(k, default)
DictGet(d, k, default) == IF k \in DOMAIN d THEN d[k] ELSE default

\* str.startswith
StartsWith(s, prefix) ==
    Len(s) >= Len(prefix) /\ SubSeq(s, 1, Len(prefix)) = prefix

\* ------------------------------------------------------------ configuration

LANGUAGES ==
    [ Hindi     |-> [speech |-> "hi-IN", trans |-> "hi"],
      Kannada   |-> [speech |-> "kn-IN", trans |-> "kn"],
      Tamil     |-> [speech |-> "ta-IN", trans |-> "ta"],
      Telugu    |-> [speech |-> "te-IN", trans |-> "te"],
      Malayalam |-> [speech |-> "ml-IN", trans |-> "ml"],
      English   |-> [speech |-> "en-US", trans |-> "en"] ]

\* The two fixed paths of the handler and the names uuid4 produces, all
\* inside UPLOAD_FOLDER.
input_path == "input.wav"
wav_path == "converted.wav"

\* The server threads: app.run serves each request on its own thread.
Threads == {1, 2}

\* ----------------------------------------------------------- request inputs

\* Language names a client may send: the six of the table, a supported name
\* in another capitalisation, a name outside the table and the empty name.
LangNames ==
    {"Hindi", "Kannada", "Tamil", "Telugu", "Malayalam", "English",
     "hindi", "French", ""}

\* A form field is present (Some(name)) or absent (None).
AllForms ==
    [source_lang : {None} \cup {Some(n) : n \in LangNames},
     target_lang : {None} \cup {Some(n) : n \in LangNames}]

\* The forms of Spec: a supported pair, and an unsupported source name with
\* the target field absent.
FewForms ==
    { [source_lang |-> Some("Kannada"), target_lang |-> Some("Tamil")],
      [source_lang |-> Some("hindi"), target_lang |-> None] }

\* Uploaded clips, named by what is spoken in them; "corrupt" cannot be
\* decoded.
Uploads == {"hello", "corrupt"}

\* str(e) of the exceptions the recognizer catches; the empty message is
\* that of an exception constructed without arguments.  The handler tests
\* this message for truth, so both kinds are drawn.
ExcMessages == {"", "boom"}

\* str(e) of the exceptions of the other stages, which is only ever copied
\* into a text.
OtherMessages == {"boom"}

\* ---------------------------------------------------------------- state

VARIABLES
    pc,            \* pc[t]: the step thread t's handler is at
    req,           \* req[t]: the request thread t is handling
    local,         \* local[t]: the local variables of the handler
    trace,         \* trace[t]: the stage calls made for the request, in order
    resp,          \* resp[t]: the response of the request, once it has ended
    files,         \* the directory temp_audio: file name -> content
    nreq,          \* number of /translate_voice requests received so far
    uuids,         \* number of UUIDs generated so far
    synth_writes,  \* which request's Synthesizer wrote which file
    served,        \* the 200 responses of /translate_voice sent so far
    overlapped     \* overlapped[t]: another /translate_voice request was in
                   \* the handler at some time during the request of t

vars ==
    <<pc, req, local, trace, resp, files, nreq, uuids, synth_writes, served,
      overlapped>>

NoReq == [rid |-> 0, route |-> "", files |-> EmptyDict, form |-> EmptyDict]

NoLocals ==
    [source_lang |-> None, target_lang |-> None, audio |-> None,
     original_text |-> None, error |-> None, translated_text |-> None,
     output_audio_filename |-> None]

NoResp == [status |-> 0, json |-> FALSE, body |-> EmptyDict]

\* jsonify(body), status
Json(body, status) == [status |-> status, json |-> TRUE, body |-> body]

\* An exception that leaves the view function: Flask answers 500 with its
\* own error page, not a JSON body of the application.
Uncaught(exc) ==
    [status |-> 500, json |-> FALSE, body |-> [exception |-> exc]]

\* Mutant of NoAudioResponse: the status is left out of the return statement,
\* so Flask sends its default, 200.
NoAudioResponse_Status200 == Json([error |-> "No audio file provided"], 200)

\* Mutant of FormatErrorResponse: the message of the exception alone.
FormatErrorResponse_Bare(e) == Json([error |-> e], 500)

\* The five responses of process_voice_translation.
NoAudioResponse == Json([error |-> "No audio file provided"], 400)

FormatErrorResponse(e) == Json([error |-> "Audio format error: " \o e], 500)

RecognitionErrorResponse(error) == Json([error |-> error], 400)

SpeechErrorResponse == Json([error |-> "Failed to generate speech"], 500)

ResultResponse(original_text, translated_text, output_audio_filename) ==
    Json([original_text |-> original_text,
          translated_text |-> translated_text,
          audio_file |-> output_audio_filename], 200)

\* One entry of trace[t].
Call(fn, text, names, used, result) ==
    [fn |-> fn, text |-> text, names |-> names, used |-> used,
     result |-> result]

\* ------------------------------------------------------- remote services

\* What the recognition service answers for a clip: the words spoken in it.
\* The converted file is the clip behind a RIFF header.
WavOf(segment) == "RIFF:" \o segment
Transcript(wav) == SubSeq(wav, 6, Len(wav))

\* What the translation service answers.
Translation(text, src_code, tgt_code) ==
    "[" \o src_code \o ">" \o tgt_code \o "]" \o text

\* What the synthesis service streams into the saved file.
Speech(text, lang_code) == "mp3[" \o lang_code \o "]:" \o text

\* AudioSegment.from_file succeeds on every clip but the corrupt one.
Decodable(content) == content # "corrupt"

\* The outcomes of the recognizer's try block: a result, or one of the three
\* exception classes the function tells apart (with str(e) for the last).
RecogOutcomes ==
    {[kind |-> "ok", msg |-> ""],
     [kind |-> "UnknownValueError", msg |-> ""],
     [kind |-> "RequestError", msg |-> ""]}
    \cup {[kind |-> "Exception", msg |-> m] : m \in ExcMessages}

\* The outcomes of the translator's try block.
TransOutcomes ==
    {[kind |-> "ok", msg |-> ""]}
    \cup {[kind |-> "Exception", msg |-> m] : m \in OtherMessages}

\* The outcomes of the synthesizer's try block: success, an exception before
\* the file is opened (gTTS rejects its arguments), or an exception inside
\* tts.save after the file was opened for writing.
SynthOutcomes == {"ok", "gTTSError", "SaveError"}

\* ------------------------------------------------------------ components

\* Mutant of uuid4: one fixed output name, like the two fixed input paths.
uuid4_Fixed == "output"

\* uuid.uuid4(): a version-4 UUID.  Its 122 random bits are modelled as a
\* value never produced before.
uuid4 == "uuid" \o ToString(uuids + 1)

\* Mutant of recognize_speech_from_file: the locale is looked up under the
\* key 'trans' of the table entry.
recognize_speech_from_file_TransKey(file_path, language_name, svc) ==
    LET lang_code ==
            DictGet(DictGet(LANGUAGES, language_name, EmptyDict),
                    "trans", "en-US")
        ret ==
            IF svc.kind = "ok"
            THEN <<Some(Transcript(files[file_path])), None>>
            ELSE IF svc.kind = "UnknownValueError"
            THEN <<None, Some("Could not understand the audio.")>>
            ELSE IF svc.kind = "RequestError"
            THEN <<None,
                   Some("Could not request results from Speech service.")>>
            ELSE <<None, Some(svc.msg)>>
    IN  [lang_code |-> lang_code, text |-> ret[1], error |-> ret[2]]

\* MODULE 1.  Returns the pair (text, error) and the locale it used.
recognize_speech_from_file(file_path, language_name, svc) ==
    LET lang_code ==
            DictGet(DictGet(LANGUAGES, language_name, EmptyDict),
                    "speech", "en-US")
        ret ==
            IF svc.kind = "ok"
            THEN <<Some(Transcript(files[file_path])), None>>
            ELSE IF svc.kind = "UnknownValueError"
            THEN <<None, Some("Could not understand the audio.")>>
            ELSE IF svc.kind = "RequestError"
            THEN <<None,
                   Some("Could not request results from Speech service.")>>
            ELSE <<None, Some(svc.msg)>>
    IN  [lang_code |-> lang_code, text |-> ret[1], error |-> ret[2]]

\* Mutant of translate_text_content: the except clause returns str(e).
translate_text_content_Bare(text, source_lang_name, target_lang_name, svc) ==
    LET src_code ==
            DictGet(DictGet(LANGUAGES, source_lang_name, EmptyDict),
                    "trans", "auto")
        tgt_code ==
            DictGet(DictGet(LANGUAGES, target_lang_name, EmptyDict),
                    "trans", "en")
        raised == svc.kind # "ok" \/ text = None
        msg == IF svc.kind # "ok" THEN svc.msg ELSE "not a valid text"
    IN  [src_code |-> src_code, tgt_code |-> tgt_code,
         raised |-> raised,
         ret |-> IF raised
                 THEN msg
                 ELSE Translation(text[1], src_code, tgt_code)]

\* MODULE 2.  Returns the translated text and the codes it used.  The
\* translation library rejects a text that is not a string by raising.
translate_text_content(text, source_lang_name, target_lang_name, svc) ==
    LET src_code ==
            DictGet(DictGet(LANGUAGES, source_lang_name, EmptyDict),
                    "trans", "auto")
        tgt_code ==
            DictGet(DictGet(LANGUAGES, target_lang_name, EmptyDict),
                    "trans", "en")
        raised == svc.kind # "ok" \/ text = None
        msg == IF svc.kind # "ok" THEN svc.msg ELSE "not a valid text"
    IN  [src_code |-> src_code, tgt_code |-> tgt_code,
         raised |-> raised,
         ret |-> IF raised
                 THEN "Error: " \o msg
                 ELSE Translation(text[1], src_code, tgt_code)]

\* Mutant of text_to_speech_file: the default code is that of the default
\* target language of the form, "hi".
text_to_speech_file_DefaultHi(text, target_lang_name, svc) ==
    LET lang_code ==
            DictGet(DictGet(LANGUAGES, target_lang_name, EmptyDict),
                    "trans", "hi")
        filename == uuid4 \o ".mp3"
    IN  [lang_code |-> lang_code,
         generated |-> IF svc = "gTTSError" THEN 0 ELSE 1,
         ret |-> IF svc = "ok" THEN Some(filename) ELSE None,
         written |->
             IF svc = "ok" THEN filename :> Speech(text, lang_code)
             ELSE IF svc = "SaveError" THEN filename :> ""
             ELSE EmptyDict]

\* Mutant of text_to_speech_file: the except clause returns the file name
\* when the name was already generated.
text_to_speech_file_NameOnFailure(text, target_lang_name, svc) ==
    LET lang_code ==
            DictGet(DictGet(LANGUAGES, target_lang_name, EmptyDict),
                    "trans", "en")
        filename == uuid4 \o ".mp3"
    IN  [lang_code |-> lang_code,
         generated |-> IF svc = "gTTSError" THEN 0 ELSE 1,
         ret |-> IF svc = "gTTSError" THEN None ELSE Some(filename),
         written |->
             IF svc = "ok" THEN filename :> Speech(text, lang_code)
             ELSE IF svc = "SaveError" THEN filename :> ""
             ELSE EmptyDict]

\* MODULE 3.  Returns the file name or None, the code it used, and the
\* files it wrote (name -> content).
text_to_speech_file(text, target_lang_name, svc) ==
    LET lang_code ==
            DictGet(DictGet(LANGUAGES, target_lang_name, EmptyDict),
                    "trans", "en")
        filename == uuid4 \o ".mp3"
    IN  [lang_code |-> lang_code,
         generated |-> IF svc = "gTTSError" THEN 0 ELSE 1,
         ret |-> IF svc = "ok" THEN Some(filename) ELSE None,
         written |->
             IF svc = "ok" THEN filename :> Speech(text, lang_code)
             ELSE IF svc = "SaveError" THEN filename :> ""
             ELSE EmptyDict]

\* ---------------------------------------------------------------- Init

\* The server has started: temp_audio exists (line 27) and holds no file of
\* this run, and no thread is handling a request.
Init ==
    /\ pc = [t \in Threads |-> "idle"]
    /\ req = [t \in Threads |-> NoReq]
    /\ local = [t \in Threads |-> NoLocals]
    /\ trace = [t \in Threads |-> <<>>]
    /\ resp = [t \in Threads |-> NoResp]
    /\ files = EmptyDict
    /\ nreq = 0
    /\ uuids = 0
    /\ synth_writes = {}
    /\ served = {}
    /\ overlapped = [t \in Threads |-> FALSE]

\* The handler of thread t returns `response`.
Return(t, response) ==
    /\ resp' = [resp EXCEPT ![t] = response]
    /\ pc' = [pc EXCEPT ![t] = "done"]

\* The handler of thread t goes on to step `next`.
Goto(t, next) ==
    /\ pc' = [pc EXCEPT ![t] = next]
    /\ UNCHANGED resp

\* The threads of T that are inside process_voice_translation.
InHandler(T) == {u \in T : pc[u] \notin {"idle", "done"}}

\* A thread is free before its first request and after it has responded.
Free(t) == pc[t] \in {"idle", "done"}

\* The next request off the socket goes to a free thread; which of several
\* free threads takes it makes no difference to the handler, so it is the
\* first.
Accept(t, rid, route, request_files, form) ==
    /\ Free(t)
    /\ \A u \in Threads : Free(u) => ~(u < t)
    /\ req' = [req EXCEPT ![t] = [rid |-> rid, route |-> route,
                                   files |-> request_files, form |-> form]]
    /\ trace' = [trace EXCEPT ![t] = <<>>]

\* ------------------------------------------- POST /translate_voice, by step

\* Lines 104-111: the check for the audio field and the two form fields.
Receive(t, forms, max) ==
    \E request_files \in {EmptyDict} \cup {[audio |-> u] : u \in Uploads},
       form \in forms :
        /\ nreq < max
        /\ nreq' = nreq + 1
        /\ Accept(t, nreq + 1, "translate_voice", request_files, form)
        /\ overlapped' =
               [u \in Threads |->
                   IF u = t THEN InHandler(Threads \ {t}) # {}
                   ELSE overlapped[u] \/ u \in InHandler({u})]
        /\ IF "audio" \notin DOMAIN request_files
           THEN /\ Return(t, NoAudioResponse)
                /\ local' = [local EXCEPT ![t] = NoLocals]
           ELSE /\ resp' = [resp EXCEPT ![t] = NoResp]
                /\ pc' = [pc EXCEPT ![t] = "save"]
                /\ local' = [local EXCEPT ![t] =
                       [NoLocals EXCEPT
                          !.source_lang =
                              Some(IF form.source_lang = None THEN "English"
                                   ELSE form.source_lang[1]),
                          !.target_lang =
                              Some(IF form.target_lang = None THEN "Hindi"
                                   ELSE form.target_lang[1])]]
        /\ UNCHANGED <<files, uuids, synth_writes, served>>

\* Mutant of Save: the upload is also kept under a name of its own.
Save_UniqueCopy(t) ==
    /\ pc[t] = "save"
    /\ trace' = [trace EXCEPT ![t] =
           Append(@, Call("file.save", None, <<input_path>>, <<>>, "ok"))]
    /\ files' = ((uuid4 \o ".wav") :> req[t].files.audio)
                @@ (input_path :> req[t].files.audio) @@ files
    /\ uuids' = uuids + 1
    /\ Goto(t, "decode")
    /\ UNCHANGED <<req, local, nreq, synth_writes, served, overlapped>>

\* Mutant of Save: an input file that is already there is kept.
Save_KeepExisting(t) ==
    /\ pc[t] = "save"
    /\ trace' = [trace EXCEPT ![t] =
           Append(@, Call("file.save", None, <<input_path>>, <<>>, "ok"))]
    /\ files' = IF input_path \in DOMAIN files THEN files
                ELSE (input_path :> req[t].files.audio) @@ files
    /\ Goto(t, "decode")
    /\ UNCHANGED <<req, local, nreq, uuids, synth_writes, served, overlapped>>

\* Lines 115-116: file.save(input_path), outside every try block.
Save(t) ==
    /\ pc[t] = "save"
    /\ \E ok \in BOOLEAN :
        /\ trace' = [trace EXCEPT ![t] =
               Append(@, Call("file.save", None, <<input_path>>, <<>>,
                              IF ok THEN "ok" ELSE "OSError"))]
        /\ IF ok
           THEN /\ files' = (input_path :> req[t].files.audio) @@ files
                /\ Goto(t, "decode")
           ELSE /\ Return(t, Uncaught("OSError"))
                /\ UNCHANGED files
    /\ UNCHANGED <<req, local, nreq, uuids, synth_writes, served, overlapped>>

\* Line 122: audio = AudioSegment.from_file(input_path), in the try block.
Decode(t) ==
    /\ pc[t] = "decode"
    /\ LET content == files[input_path]
       IN  IF Decodable(content)
           THEN /\ local' = [local EXCEPT ![t].audio = Some(content)]
                /\ trace' = [trace EXCEPT ![t] =
                       Append(@, Call("AudioSegment.from_file", Some(content),
                                      <<input_path>>, <<>>, "ok"))]
                /\ Goto(t, "export")
           ELSE \E m \in OtherMessages :
                /\ trace' = [trace EXCEPT ![t] =
                       Append(@, Call("AudioSegment.from_file", Some(content),
                                      <<input_path>>, <<>>, "Exception"))]
                /\ Return(t, FormatErrorResponse(m))
                /\ UNCHANGED local
    /\ UNCHANGED <<req, files, nreq, uuids, synth_writes, served, overlapped>>

\* Lines 123-126: audio.export(wav_path, format="wav"), in the try block.
Export(t) ==
    /\ pc[t] = "export"
    /\ \E ok \in BOOLEAN :
        /\ trace' = [trace EXCEPT ![t] =
               Append(@, Call("audio.export", None, <<wav_path>>, <<>>,
                              IF ok THEN "ok" ELSE "Exception"))]
        /\ IF ok
           THEN /\ files' = (wav_path :> WavOf(local[t].audio[1])) @@ files
                /\ Goto(t, "recognize")
           ELSE \E m \in OtherMessages :
                /\ Return(t, FormatErrorResponse(m))
                /\ UNCHANGED files
    /\ UNCHANGED <<req, local, nreq, uuids, synth_writes, served, overlapped>>

\* Lines 131-133: STEP A and the test of its error.
Recognize(t) ==
    /\ pc[t] = "recognize"
    /\ \E svc \in RecogOutcomes :
        LET r == recognize_speech_from_file(wav_path,
                                            local[t].source_lang[1], svc)
        IN  /\ local' = [local EXCEPT ![t].original_text = r.text,
                                      ![t].error = r.error]
            /\ trace' = [trace EXCEPT ![t] =
                   Append(@, Call("recognize_speech_from_file",
                                  Some(files[wav_path]),
                                  <<local[t].source_lang[1]>>,
                                  <<r.lang_code>>, svc.kind))]
            /\ IF Truthy(r.error)
               THEN Return(t, RecognitionErrorResponse(r.error[1]))
               ELSE Goto(t, "translate")
    /\ UNCHANGED <<req, files, nreq, uuids, synth_writes, served, overlapped>>

\* Line 138: STEP B.
Translate(t) ==
    /\ pc[t] = "translate"
    /\ \E svc \in TransOutcomes :
        LET r == translate_text_content(local[t].original_text,
                                        local[t].source_lang[1],
                                        local[t].target_lang[1], svc)
        IN  /\ local' = [local EXCEPT ![t].translated_text = Some(r.ret)]
            /\ trace' = [trace EXCEPT ![t] =
                   Append(@, Call("translate_text_content",
                                  local[t].original_text,
                                  <<local[t].source_lang[1],
                                    local[t].target_lang[1]>>,
                                  <<r.src_code, r.tgt_code>>,
                                  IF r.raised THEN "Exception" ELSE "ok"))]
    /\ Goto(t, "synthesize")
    /\ UNCHANGED <<req, files, nreq, uuids, synth_writes, served, overlapped>>

\* Line 143: STEP C.
Synthesize(t) ==
    /\ pc[t] = "synthesize"
    /\ \E svc \in SynthOutcomes :
        LET r == text_to_speech_file(local[t].translated_text[1],
                                     local[t].target_lang[1], svc)
        IN  /\ local' = [local EXCEPT ![t].output_audio_filename = r.ret]
            /\ trace' = [trace EXCEPT ![t] =
                   Append(@, Call("text_to_speech_file",
                                  local[t].translated_text,
                                  <<local[t].target_lang[1]>>,
                                  <<r.lang_code>>,
                                  IF svc = "ok" THEN "ok" ELSE "Exception"))]
            /\ files' = r.written @@ files
            /\ uuids' = uuids + r.generated
            /\ synth_writes' =
                   synth_writes \cup
                   {[rid |-> req[t].rid, name |-> n, content |-> r.written[n]] :
                        n \in DOMAIN r.written}
    /\ Goto(t, "respond")
    /\ UNCHANGED <<req, nreq, served, overlapped>>

\* Lines 145-155: the test of the file name and the result.
Respond(t) ==
    /\ pc[t] = "respond"
    /\ IF ~Truthy(local[t].output_audio_filename)
       THEN /\ Return(t, SpeechErrorResponse)
            /\ UNCHANGED served
       ELSE /\ Return(t, ResultResponse(
                             local[t].original_text,
                             local[t].translated_text[1],
                             local[t].output_audio_filename[1]))
            /\ served' = served \cup
                   {[rid |-> req[t].rid,
                     audio_file |-> local[t].output_audio_filename[1]]}
    /\ UNCHANGED <<req, local, trace, files, nreq, uuids, synth_writes,
                   overlapped>>

\* ------------------------------------------------ GET /get_audio/<filename>

\* Mutant of GetAudio: the file is removed once it has been sent.
GetAudio_Cleanup(t) ==
    \E filename \in {s.audio_file : s \in served} \cup {"missing.mp3"} :
        /\ Accept(t, 0, "get_audio", EmptyDict, [filename |-> filename])
        /\ local' = [local EXCEPT ![t] = NoLocals]
        /\ Return(t, IF filename \in DOMAIN files
                     THEN [status |-> 200, json |-> FALSE,
                           body |-> [file |-> files[filename]]]
                     ELSE Uncaught("FileNotFoundError"))
        /\ files' = [n \in DOMAIN files \ {filename} |-> files[n]]
        /\ UNCHANGED <<nreq, uuids, synth_writes, served, overlapped>>

\* Lines 157-159: send_file of the named file; a missing file raises.
GetAudio(t) ==
    \E filename \in {s.audio_file : s \in served} \cup {"missing.mp3"} :
        /\ Accept(t, 0, "get_audio", EmptyDict, [filename |-> filename])
        /\ local' = [local EXCEPT ![t] = NoLocals]
        /\ Return(t, IF filename \in DOMAIN files
                     THEN [status |-> 200, json |-> FALSE,
                           body |-> [file |-> files[filename]]]
                     ELSE Uncaught("FileNotFoundError"))
        /\ UNCHANGED <<files, nreq, uuids, synth_writes, served, overlapped>>

\* ------------------------------------------------------------ specifications

Step(t) ==
    \/ Save(t)
    \/ Decode(t)
    \/ Export(t)
    \/ Recognize(t)
    \/ Translate(t)
    \/ Synthesize(t)
    \/ Respond(t)

\* Two threads, a few forms, MaxRequests requests in all.
Next ==
    \E t \in Threads :
        \/ Receive(t, FewForms, MaxRequests)
        \/ GetAudio(t)
        \/ Step(t)

Spec == Init /\ [][Next]_vars

\* One thread, every form, MaxLangRequests requests.
NextLang ==
    \/ Receive(1, AllForms, MaxLangRequests)
    \/ GetAudio(1)
    \/ Step(1)

SpecLang == Init /\ [][NextLang]_vars

\* ------------------------------------------------------- reading a trace

\* Thread t is handling, or has just answered, a POST /translate_voice.
Translating(t) == req[t].route = "translate_voice"

\* That request has ended.
Ended(t) == Translating(t) /\ pc[t] = "done"

\* The entries of trace[t] that are calls of fn.
Calls(t, fn) == {i \in DOMAIN trace[t] : trace[t][i].fn = fn}

Called(t, fn) == Calls(t, fn) # {}

\* fn was called for the request of t and raised.
Raised(t, fn) == \E i \in Calls(t, fn) : trace[t][i].result # "ok"

\* fn was called for the request of t and returned normally.
Succeeded(t, fn) == \E i \in Calls(t, fn) : trace[t][i].result = "ok"

NormalizationFailed(t) ==
    Raised(t, "AudioSegment.from_file") \/ Raised(t, "audio.export")

RecognitionFailed(t) == Raised(t, "recognize_speech_from_file")

\* ------------------------------------------------------------------ claims

\* C1: whenever the recognizer returns an error, whatever its message, the
\* request ends with a 400 response whose error field is that message, and
\* neither the Translator nor the Synthesizer is invoked for the request.
C1_RecognitionErrorEnds400 ==
    \A t \in Threads :
        (Translating(t) /\ RecognitionFailed(t)) =>
            /\ pc[t] = "done"
            /\ resp[t] = Json([error |-> local[t].error[1]], 400)
            /\ ~Called(t, "translate_text_content")
            /\ ~Called(t, "text_to_speech_file")

\* C2: no failure of a stage (save, normalize, recognize, translate,
\* synthesize) leaves process_voice_translation as an uncaught exception:
\* every ended request has a JSON body and one of the statuses 200, 400, 500
\* of the handler.
C2_NoUncaughtException ==
    \A t \in Threads :
        Ended(t) => resp[t].json /\ resp[t].status \in {200, 400, 500}

\* C3: a failure of the remote translation never halts the pipeline: the
\* translated text starts with "Error:", the request goes on to the
\* Synthesizer, which is called with that text, and if synthesis succeeds the
\* request ends with 200 and a translated_text that starts with "Error:".
C3_TranslationFailureIsNotFatal ==
    \A t \in Threads :
        (Translating(t) /\ Raised(t, "translate_text_content")) =>
            /\ local[t].translated_text # None
            /\ StartsWith(local[t].translated_text[1], "Error:")
            /\ pc[t] \in {"synthesize", "respond", "done"}
            /\ pc[t] # "synthesize" =>
                   \E i \in Calls(t, "text_to_speech_file") :
                       trace[t][i].text = local[t].translated_text
            /\ (pc[t] = "done" /\ Succeeded(t, "text_to_speech_file")) =>
                   /\ resp[t].status = 200
                   /\ resp[t].json
                   /\ StartsWith(resp[t].body.translated_text, "Error:")

C3_Witness ==
    \E t \in Threads :
        /\ Ended(t)
        /\ Raised(t, "translate_text_content")
        /\ Succeeded(t, "text_to_speech_file")
        /\ resp[t].status = 200

\* C4: a request without the audio field ends, in the step that receives
\* it, with a 400 response that carries an error field, whatever source_lang
\* and target_lang are; no stage is called, no file of the directory is
\* written and no file is synthesized.
C4_MissingAudioEnds400 ==
    [][\A t \in Threads :
         (/\ req'[t] # req[t]
          /\ req'[t].route = "translate_voice"
          /\ "audio" \notin DOMAIN req'[t].files) =>
             /\ pc'[t] = "done"
             /\ resp'[t].status = 400
             /\ resp'[t].json
             /\ "error" \in DOMAIN resp'[t].body
             /\ trace'[t] = <<>>
             /\ files' = files
             /\ synth_writes' = synth_writes]_vars

C4_Witness ==
    \E t \in Threads :
        /\ Ended(t)
        /\ "audio" \notin DOMAIN req[t].files
        /\ req[t].form.source_lang = Some("French")
        /\ req[t].form.target_lang = None
        /\ resp[t].status = 400

\* C5: when decoding or re-encoding the upload fails, the request ends with
\* a 500 response whose error starts with "Audio format error", and the
\* Recognizer, the Translator and the Synthesizer are not called for it.
C5_NormalizationFailureEnds500 ==
    \A t \in Threads :
        (Translating(t) /\ NormalizationFailed(t)) =>
            /\ pc[t] = "done"
            /\ resp[t].status = 500
            /\ resp[t].json
            /\ StartsWith(resp[t].body.error, "Audio format error")
            /\ ~Called(t, "recognize_speech_from_file")
            /\ ~Called(t, "translate_text_content")
            /\ ~Called(t, "text_to_speech_file")

C5_Witness ==
    \E t, u \in Threads :
        /\ Ended(t) /\ Raised(t, "AudioSegment.from_file")
        /\ Ended(u) /\ Raised(u, "audio.export")
        /\ resp[t].status = 500
        /\ resp[u].status = 500

\* C6: when text_to_speech_file fails it returns no file name and the
\* request ends with 500 and the fixed error "Failed to generate speech";
\* a 200 response always carries the file name of a successful synthesis.
C6_SynthesisFailureEnds500 ==
    \A t \in Threads :
        Translating(t) =>
            /\ Raised(t, "text_to_speech_file") =>
                   /\ local[t].output_audio_filename = None
                   /\ pc[t] \in {"respond", "done"}
                   /\ pc[t] = "done" =>
                          resp[t] = Json([error |-> "Failed to generate speech"],
                                         500)
            /\ (pc[t] = "done" /\ resp[t].status = 200) =>
                   /\ Succeeded(t, "text_to_speech_file")
                   /\ local[t].output_audio_filename # None
                   /\ resp[t].body.audio_file =
                          local[t].output_audio_filename[1]

C6_Witness ==
    \E t \in Threads :
        /\ Ended(t)
        /\ Raised(t, "text_to_speech_file")
        /\ resp[t].status = 500

\* C7: the status of an ended request is fixed by the stage that ended it:
\* 400 exactly when the audio is missing or recognition failed, 500 exactly
\* when normalization or synthesis failed, 200 exactly when save, normalize,
\* recognize and synthesize all succeeded.
C7_StatusByStage ==
    \A t \in Threads :
        Ended(t) =>
            /\ resp[t].status \in {200, 400, 500}
            /\ resp[t].status = 400 <=>
                   \/ "audio" \notin DOMAIN req[t].files
                   \/ RecognitionFailed(t)
            /\ resp[t].status = 500 <=>
                   \/ NormalizationFailed(t)
                   \/ Raised(t, "text_to_speech_file")
            /\ resp[t].status = 200 <=>
                   /\ Succeeded(t, "file.save")
                   /\ Succeeded(t, "AudioSegment.from_file")
                   /\ Succeeded(t, "audio.export")
                   /\ Succeeded(t, "recognize_speech_from_file")
                   /\ Succeeded(t, "text_to_speech_file")

\* C8: the lookup of a language name never fails and follows the table: for
\* each of the six supported names the Recognizer uses the entry's speech
\* locale and the Translator and the Synthesizer the entry's ISO code; for
\* every other name the defaults are "en-US" (speech), "auto" (translation
\* source), "en" (translation target) and "en" (synthesis).
SupportedNames ==
    {"Hindi", "Kannada", "Tamil", "Telugu", "Malayalam", "English"}

C8_LookupIsTotal ==
    \A t \in Threads : \A i \in DOMAIN trace[t] :
        LET c == trace[t][i]
            Speech_(n) ==
                IF n \in SupportedNames THEN LANGUAGES[n].speech ELSE "en-US"
            Source_(n) ==
                IF n \in SupportedNames THEN LANGUAGES[n].trans ELSE "auto"
            Target_(n) ==
                IF n \in SupportedNames THEN LANGUAGES[n].trans ELSE "en"
        IN  /\ c.fn = "recognize_speech_from_file" =>
                   c.used = <<Speech_(c.names[1])>>
            /\ c.fn = "translate_text_content" =>
                   c.used = <<Source_(c.names[1]), Target_(c.names[2])>>
            /\ c.fn = "text_to_speech_file" =>
                   c.used = <<Target_(c.names[1])>>

C8_Witness ==
    \E t \in Threads :
        /\ \E i \in Calls(t, "recognize_speech_from_file") :
               trace[t][i].names = <<"hindi">> /\ trace[t][i].used = <<"en-US">>
        /\ \E i \in Calls(t, "translate_text_content") :
               trace[t][i].used = <<"auto", "ml">>
        /\ \E i \in Calls(t, "text_to_speech_file") :
               trace[t][i].names = <<"Malayalam">> /\ trace[t][i].used = <<"ml">>

\* C9: two requests that both succeed return different audio_file values,
\* and the Synthesizer of one never writes the file named in the response of
\* the other.
C9_DistinctAudioFiles ==
    /\ \A a, b \in served : a.rid # b.rid => a.audio_file # b.audio_file
    /\ \A s \in served : \A w \in synth_writes :
           w.name = s.audio_file => w.rid = s.rid

\* Both threads have answered 200: the second request was accepted while the
\* first was being handled.
C9_Witness ==
    /\ \A t \in Threads : Ended(t) /\ resp[t].status = 200
    /\ Cardinality(served) = 2

\* C10: the audio_file of a 200 response was written by the Synthesizer of
\* that request before the response was sent, and it stays in the directory
\* with that content whatever requests follow, so that GET /get_audio of it
\* answers with the synthesized speech.
C10_ServedFileStays ==
    /\ \A t \in Threads :
           (pc[t] = "respond" /\ Truthy(local[t].output_audio_filename)) =>
               local[t].output_audio_filename[1] \in DOMAIN files
    /\ \A s \in served :
           /\ s.audio_file \in DOMAIN files
           /\ files[s.audio_file] # ""
           /\ \E w \in synth_writes :
                  /\ w.rid = s.rid
                  /\ w.name = s.audio_file
                  /\ w.content = files[s.audio_file]
           /\ \A t \in Threads :
                  (/\ req[t].route = "get_audio"
                   /\ pc[t] = "done"
                   /\ req[t].form.filename = s.audio_file) =>
                      /\ resp[t].status = 200
                      /\ resp[t].body.file = files[s.audio_file]

\* The file of the first request is fetched after a second request has been
\* answered with 200 too.
C10_Witness ==
    \E t \in Threads : \E s, s2 \in served :
        /\ s.rid = 1
        /\ s2.rid = 2
        /\ req[t].route = "get_audio"
        /\ pc[t] = "done"
        /\ req[t].form.filename = s.audio_file
        /\ resp[t].status = 200

\* C11: with two requests in the handler at once, a request can read audio
\* that comes from the upload of the other: its normalizer decodes an input
\* file, or its Recognizer reads a converted file, that is not made from its
\* own upload.  Both requests use the same two paths, so this happens, and it
\* happens only to a request that shared the handler with another one.
CrossDecode(t) ==
    \E i \in Calls(t, "AudioSegment.from_file") :
        trace[t][i].text # Some(req[t].files.audio)

CrossRecognize(t) ==
    \E i \in Calls(t, "recognize_speech_from_file") :
        trace[t][i].text # Some(WavOf(req[t].files.audio))

C11_CrossReadNeedsOverlap ==
    \A t \in Threads :
        (Translating(t) /\ (CrossDecode(t) \/ CrossRecognize(t))) =>
            overlapped[t]

\* The Recognizer of a request that uploaded the corrupt clip has read the
\* conversion of the clip the other request uploaded.
C11_Witness ==
    \E t, u \in Threads :
        /\ t # u
        /\ Translating(t) /\ Translating(u)
        /\ "audio" \in DOMAIN req[t].files
        /\ "audio" \in DOMAIN req[u].files
        /\ req[t].files.audio = "corrupt"
        /\ req[u].files.audio = "hello"
        /\ \E i \in Calls(t, "recognize_speech_from_file") :
               trace[t][i].text = Some(WavOf("hello"))

\* C12: within one request the stages run in the order save, normalize
\* (decode, export), recognize, translate, synthesize, respond; a stage is
\* called only after the stage before it has returned a successful result
\* (for the Translator, which never fails to its caller, a text); the
\* Translator receives the text the Recognizer returned and the Synthesizer
\* the text the Translator returned; 200 is sent only after a successful
\* synthesis.
StageOrder ==
    <<"file.save", "AudioSegment.from_file", "audio.export",
      "recognize_speech_from_file", "translate_text_content",
      "text_to_speech_file">>

\* What the Recognizer returned as text, read from its entry of the trace.
RecognizedText(c) ==
    IF c.result = "ok" THEN Some(Transcript(c.text[1])) ELSE None

C12_StrictlySequential ==
    \A t \in Threads :
        Translating(t) =>
            /\ Len(trace[t]) <= Len(StageOrder)
            /\ \A i \in DOMAIN trace[t] :
                   /\ trace[t][i].fn = StageOrder[i]
                   /\ (i > 1 /\ StageOrder[i] # "text_to_speech_file") =>
                          trace[t][i - 1].result = "ok"
                   /\ StageOrder[i] = "translate_text_content" =>
                          /\ trace[t][i].text = RecognizedText(trace[t][i - 1])
                          /\ trace[t][i].text # None
                   /\ StageOrder[i] = "text_to_speech_file" =>
                          /\ local[t].translated_text # None
                          /\ trace[t][i].text = local[t].translated_text
            /\ (pc[t] = "done" /\ resp[t].status = 200) =>
                   Succeeded(t, "text_to_speech_file")

\* C13: no stage is retried: each of normalize (decode, export), recognize,
\* translate and synthesize is called at most once for a request, and after a
\* stage has failed fatally (a failure of save, of normalization, of
\* recognition or of synthesis; a failure of translation is not fatal) no
\* further stage is called for the request.
FatalStages ==
    {"file.save", "AudioSegment.from_file", "audio.export",
     "recognize_speech_from_file", "text_to_speech_file"}

C13_NoRetry ==
    \A t \in Threads :
        Translating(t) =>
            /\ \A i, j \in DOMAIN trace[t] :
                   trace[t][i].fn = trace[t][j].fn => i = j
            /\ \A i \in DOMAIN trace[t] :
                   (trace[t][i].fn \in FatalStages
                    /\ trace[t][i].result # "ok") => i = Len(trace[t])

\* C14: in every 200 response original_text is the text, not None, that the
\* Recognizer returned on a successful recognition of the request; a request
\* whose recognition failed never ends with 200 and never calls the
\* Translator with a missing text.
C14_OriginalTextIsRecognized ==
    \A t \in Threads :
        Translating(t) =>
            /\ (pc[t] = "done" /\ resp[t].status = 200) =>
                   /\ Succeeded(t, "recognize_speech_from_file")
                   /\ resp[t].body.original_text # None
                   /\ \A i \in Calls(t, "recognize_speech_from_file") :
                          resp[t].body.original_text =
                              RecognizedText(trace[t][i])
            /\ RecognitionFailed(t) =>
                   /\ ~(pc[t] = "done" /\ resp[t].status = 200)
                   /\ \A i \in Calls(t, "translate_text_content") :
                          trace[t][i].text # None

\* C15: the UUID-named files of the directory are exactly those the
\* Synthesizer wrote; a request that ends in an error without having reached
\* the Synthesizer has added none of them, and a request that ends with 200
\* has added exactly one, the file its response names.
UuidFiles == DOMAIN files \ {input_path, wav_path}

\* The files the request of thread t has added.
AddedBy(t) == {w.name : w \in {v \in synth_writes : v.rid = req[t].rid}}

C15_OnlySuccessAddsAFile ==
    /\ UuidFiles = {w.name : w \in synth_writes}
    /\ Cardinality(UuidFiles) = Cardinality(synth_writes)
    /\ \A t \in Threads :
           Ended(t) =>
               /\ (resp[t].status # 200 /\ ~Called(t, "text_to_speech_file"))
                      => AddedBy(t) = {}
               /\ resp[t].status = 200 =>
                      AddedBy(t) = {resp[t].body.audio_file}

\* One thread has ended with a recognition error and the other with 200,
\* and the directory holds the one synthesized file.
C15_Witness ==
    \E t, u \in Threads :
        /\ Ended(t) /\ resp[t].status = 400 /\ RecognitionFailed(t)
        /\ Ended(u) /\ resp[u].status = 200
        /\ UuidFiles = {resp[u].body.audio_file}

\* C16: for every target name, supported or not, the code the Synthesizer
\* speaks in is the target code the Translator translated into; for every
\* supported source name the Recognizer's locale and the Translator's source
\* code are the two codes of that name's entry of the table.
C16_StagesAgreeOnCodes ==
    \A t \in Threads :
        /\ \A i \in Calls(t, "translate_text_content") :
           \A j \in Calls(t, "text_to_speech_file") :
               /\ trace[t][j].names[1] = trace[t][i].names[2]
               /\ trace[t][j].used[1] = trace[t][i].used[2]
        /\ \A i \in Calls(t, "recognize_speech_from_file") :
           \A j \in Calls(t, "translate_text_content") :
               /\ trace[t][j].names[1] = trace[t][i].names[1]
               /\ trace[t][i].names[1] \in SupportedNames =>
                      [speech |-> trace[t][i].used[1],
                       trans |-> trace[t][j].used[1]]
                      = [speech |-> LANGUAGES[trace[t][i].names[1]].speech,
                         trans |-> LANGUAGES[trace[t][i].names[1]].trans]

\* A request from Telugu into a name outside the table has been synthesized.
C16_Witness ==
    \E t \in Threads :
        /\ \E i \in Calls(t, "recognize_speech_from_file") :
               trace[t][i].names = <<"Telugu">> /\ trace[t][i].used = <<"te-IN">>
        /\ \E i \in Calls(t, "translate_text_content") :
               /\ trace[t][i].names = <<"Telugu", "French">>
               /\ trace[t][i].used = <<"te", "en">>
        /\ \E i \in Calls(t, "text_to_speech_file") :
               trace[t][i].names = <<"French">> /\ trace[t][i].used = <<"en">>

====
